---- MODULE Spec2Model ----
(***************************************************************************)
(* Realtime coordination core of the anonymous 1-to-1 chat service:        *)
(* the matchmaking queue (server/src/socket/matchmaking.ts), the           *)
(* per-socket search driver (handleMatchmaking) and the socket handlers    *)
(* find-match / cancel-match / skip / disconnect (socket/index.ts).        *)
(*                                                                         *)
(* Node runs every handler to completion, so one handler (up to its next   *)
(* await or timer) is one action.  The shared tables are carried through a *)
(* handler as a record g, transformed by one operator per source function. *)
(* Wall-clock time is abstracted: a timer may fire at any moment after it  *)
(* was armed, and "waited more than 10 s" is an arbitrary boolean.         *)
(***************************************************************************)
EXTENDS Integers, Sequences, FiniteSets, TLC

\* ---------------------------------------------------------------- bounds
Sessions == {"s1", "s2", "s3"}
MaxStarts == 4       \* handleMatchmaking calls in one run, over all sockets
MaxAttempts == 2     \* cap on QueuedUser.searchAttempts
MaxInFlight == 1     \* block-list fetches / requeue timers in flight per session
MaxRelayStarts == 3  \* handleMatchmaking calls in a run with the relay handlers
MaxMsgs == 2         \* send-message events of the two sockets of one match
MaxQueue == 4        \* queue sizes given to getPollingInterval
MaxChecks == 25      \* values of checkCount given to getPollingInterval
MaxCandidates == 6   \* length of the candidates array given to the selection
RandomSteps == 8     \* Math.random() takes the multiples of 1 / RandomSteps below 1
MaxOverlapStarts == 5    \* handleMatchmaking calls in a run with overlapping handlers
MaxOverlapInFlight == 2  \* suspended handlers per socket in such a run
MaxFairStarts == 2       \* handleMatchmaking calls in a run with fair poll timers

None == "none"
Tiers == {"free", "premium", "pro"}

\* the authenticated user of each socket, and the external Block collection
UserOf(s) == CASE s = "s1" -> "u1" [] s = "s2" -> "u2" [] OTHER -> "u3"
BlockedBy(u) == IF u = "u1" THEN {"u2"} ELSE {}

\* preferences the client of a socket may send with find-match / skip; the
\* payload is not validated, so the tier may be a string without a bucket
PrefChoices(s) ==
  IF s = "s3"
  THEN { [tier |-> "free",    gender |-> "any",  region |-> "any"],
         [tier |-> "premium", gender |-> "male", region |-> "in"],
         [tier |-> "gold",    gender |-> "any",  region |-> "any"] }
  ELSE { [tier |-> "free",    gender |-> "any",  region |-> "any"] }

\* ------------------------------------------------------------ Map helpers
\* Map.set, Map.delete and Array.map, each giving an explicit table
MapSet(m, k, v) == (k :> v) @@ m
RECURSIVE Restrict(_, _)
Restrict(m, K) ==
  IF K = {} THEN <<>>
  ELSE LET k == CHOOSE x \in K : TRUE IN (k :> m[k]) @@ Restrict(m, K \ {k})
MapDelete(m, k) == Restrict(m, (DOMAIN m) \ {k})
SeqOf(f) == SubSeq(f, 1, Len(f))
MapHas(m, k) == k \in DOMAIN m

\* one observable effect of a handler: an emitted event, or the deletion of
\* a pairing from the matches table (ev = "matches.delete")
Effect(ev, to, from, auto, disc) ==
  [ev |-> ev, to |-> to, from |-> from, auto |-> auto, disc |-> disc, data |-> None]
EffectWith(ev, to, from, data) ==
  [ev |-> ev, to |-> to, from |-> from, auto |-> FALSE, disc |-> FALSE, data |-> data]
Emit(g, e) == [g EXCEPT !.trace = Append(@, e)]

VARIABLES
  queue,                \* MatchmakingQueue.queue : socketId -> QueuedUser
  matches,              \* MatchmakingQueue.matches : socketId -> socketId
  tierBuckets,          \* MatchmakingQueue.tierBuckets : tier -> set of socketIds
  matchmakingIntervals, \* socketId -> "null" | "timer" (handle of a driver's timer)
  matchmakingCancelled, \* socketId -> BOOLEAN
  drivers,              \* per socket, the handleMatchmaking closures created so far
  indexCancel,          \* sockets whose index.ts 'cancel-match' listener is registered
  connected,            \* sockets in io.sockets.sockets
  inflight,             \* per socket, handlers suspended at an await or a setTimeout
  notified,             \* history: per socket, the match named by the match-found
                        \* it was sent for its current match
  submitted,            \* history: per socket, the texts it sent as send-message
                        \* while in its current match
  relayed,              \* history: per socket, the texts of its messages emitted to
                        \* its match as receive-message
  queueSize,            \* matchmakingQueue.getQueueSize() as read by getPollingInterval
  checkCount,           \* checkCount of the closure that calls getPollingInterval
  interval,             \* the value getPollingInterval returned, 0 before the call
  candidates,           \* findMatch's array of scored candidates, before the sort
  selected              \* the candidate the selection returned, None before it

vars == <<queue, matches, tierBuckets, matchmakingIntervals, matchmakingCancelled,
          drivers, indexCancel, connected, inflight, notified, submitted, relayed,
          queueSize, checkCount, interval, candidates, selected>>

\* the shared tables as one value, threaded through a handler; trace collects
\* the effects of the handler in program order
G == [trace |-> <<>>, queue |-> queue, matches |-> matches,
      tierBuckets |-> tierBuckets, drivers |-> drivers, indexCancel |-> indexCancel,
      connected |-> connected, inflight |-> inflight,
      intervals |-> matchmakingIntervals, cancelled |-> matchmakingCancelled]

\* ------------------------------------------------------ MatchmakingQueue
\* const bucket = this.tierBuckets.get(tier); if (bucket) bucket.add / delete
BucketAdd(buckets, tier, s) ==
  IF tier \in DOMAIN buckets THEN [buckets EXCEPT ![tier] = @ \cup {s}] ELSE buckets
BucketDelete(buckets, tier, s) ==
  IF tier \in DOMAIN buckets THEN [buckets EXCEPT ![tier] = @ \ {s}] ELSE buckets

\* Math.min
Min(a, b) == IF a <= b THEN a ELSE b

isMatched(g, s) == MapHas(g.matches, s)
getMatch(g, s) == IF MapHas(g.matches, s) THEN g.matches[s] ELSE None

removeUser(g, s, keepMatch) ==
  LET g1 == IF MapHas(g.queue, s)
            THEN [g EXCEPT !.queue = MapDelete(@, s),
                           !.tierBuckets = BucketDelete(@, g.queue[s].tier, s)]
            ELSE g
  IN IF ~keepMatch /\ MapHas(g1.matches, s)
     THEN Emit([g1 EXCEPT !.matches = MapDelete(MapDelete(@, s), g1.matches[s])],
               Effect("matches.delete", s, g1.matches[s], FALSE, FALSE))
     ELSE g1

addUser(g, s, userId, prefs, blockedUserIds) ==
  LET g1 == removeUser(g, s, FALSE)
      user == [tier |-> prefs.tier, gender |-> prefs.gender, region |-> prefs.region,
               userId |-> userId, blockedUsers |-> blockedUserIds,
               searchAttempts |-> 0]
  IN [g1 EXCEPT !.queue = MapSet(@, s, user),
                !.tierBuckets = BucketAdd(@, prefs.tier, s)]

areCompatible(g, s, c) ==
  LET user == g.queue[s]
      candidate == g.queue[c]
  IN /\ c # s
     /\ ~MapHas(g.matches, c)
     /\ ~(candidate.userId \in user.blockedUsers \/ user.userId \in candidate.blockedUsers)
     /\ (user.region # "any" =>
           candidate.region # "any" /\ candidate.region = user.region)
     /\ (user.gender # "any" =>
           candidate.gender # "any" /\ candidate.gender = user.gender)

\* Phase 1: the caller's tier bucket
SameTierCandidates(g, s) ==
  IF g.queue[s].tier \in DOMAIN g.tierBuckets
  THEN {c \in g.tierBuckets[g.queue[s].tier] :
          c # s /\ MapHas(g.queue, c) /\ areCompatible(g, s, c)}
  ELSE {}

\* Phase 2: the other buckets
CrossTierCandidates(g, s) ==
  {c \in UNION {g.tierBuckets[t] : t \in (DOMAIN g.tierBuckets) \ {g.queue[s].tier}} :
      MapHas(g.queue, c) /\ areCompatible(g, s, c)}

\* relaxed phase without the self check
RelaxedCandidates_NoSelfCheck(g, s) ==
  {c \in DOMAIN g.queue :
      /\ ~MapHas(g.matches, c)
      /\ ~(g.queue[c].userId \in g.queue[s].blockedUsers
           \/ g.queue[s].userId \in g.queue[c].blockedUsers)}

\* relaxed phase without the block-list check
RelaxedCandidates_NoBlockCheck(g, s) ==
  {c \in DOMAIN g.queue : c # s /\ ~MapHas(g.matches, c)}

\* relaxed phase that still applies the region and gender filters
RelaxedCandidates_KeepsFilters(g, s) ==
  {c \in DOMAIN g.queue : areCompatible(g, s, c)}

\* Phase 3: the whole queue, block lists only
RelaxedCandidates(g, s) ==
  {c \in DOMAIN g.queue :
      /\ c # s
      /\ ~MapHas(g.matches, c)
      /\ ~(g.queue[c].userId \in g.queue[s].blockedUsers
           \/ g.queue[s].userId \in g.queue[c].blockedUsers)}

\* findMatch that goes from an empty phase 1 straight to the relaxed phase
Candidates_SkipsCrossTier(g, s, waitedLong) ==
  LET p1 == SameTierCandidates(g, s)
      p2 == IF waitedLong THEN p1 \cup CrossTierCandidates(g, s) ELSE p1
  IN IF p2 = {} THEN RelaxedCandidates(g, s) ELSE p2

\* the candidates array before scoring; waitedLong is user.waitTime > 10000
Candidates(g, s, waitedLong) ==
  LET p1 == SameTierCandidates(g, s)
      p2 == IF p1 = {} \/ waitedLong THEN p1 \cup CrossTierCandidates(g, s) ELSE p1
  IN IF p2 = {} THEN RelaxedCandidates(g, s) ELSE p2

\* calculateMatchScore, in whole points; avgWaitTime is the mean of the two
\* wait times in ms and rnd the value of Math.random() * 10
calculateMatchScore(tierMatch, avgWaitTime, attempts, rnd) ==
  (IF tierMatch THEN 100 ELSE 50) + Min(50, avgWaitTime \div 600)
    - Min(20, attempts * 2) + rnd

\* candidates.sort((a, b) => b.score - a.score): a stable insertion of each
\* element after the elements of greater or equal score
RECURSIVE InsertByScore(_, _)
InsertByScore(sorted, c) ==
  IF sorted = <<>> THEN <<c>>
  ELSE IF Head(sorted).score >= c.score
       THEN <<Head(sorted)>> \o InsertByScore(Tail(sorted), c)
       ELSE <<c>> \o sorted
RECURSIVE SortByScore(_)
SortByScore(cs) ==
  IF cs = <<>> THEN <<>>
  ELSE InsertByScore(SortByScore(SubSeq(cs, 1, Len(cs) - 1)), cs[Len(cs)])

\* candidates.slice(0, Math.min(5, candidates.length)) of the sorted array
topCandidates(cs) == SubSeq(SortByScore(cs), 1, Min(5, Len(cs)))

RECURSIVE totalScore(_)
totalScore(top) == IF top = <<>> THEN 0 ELSE Head(top).score + totalScore(Tail(top))

\* the loop of the weighted draw; random is kept as a multiple of 1/RandomSteps
RECURSIVE Draw(_, _, _)
Draw(top, k, random) ==
  IF k > Len(top) THEN top[1].user
  ELSE IF random - RandomSteps * top[k].score <= 0 THEN top[k].user
  ELSE Draw(top, k + 1, random - RandomSteps * top[k].score)

\* the selection that draws from the first five of the unsorted array
select_NoSort(cs, r) ==
  LET top == SubSeq(cs, 1, Min(5, Len(cs)))
  IN Draw(top, 1, r * totalScore(top))

\* the selection at the end of findMatch; r / RandomSteps is the value of
\* Math.random()
select(cs, r) ==
  LET top == topCandidates(cs)
  IN Draw(top, 1, r * totalScore(top))

\* The sockets findMatch may return (None for null).  Every score carries an
\* independent random term and the draw is weighted, so with at most five
\* candidates any of them can be returned.
findMatchResults(g, s, waitedLong) ==
  IF isMatched(g, s) \/ ~MapHas(g.queue, s) THEN {None}
  ELSE IF Candidates(g, s, waitedLong) = {} THEN {None}
  ELSE Candidates(g, s, waitedLong)

\* findMatch that counts one call as two attempts
findMatch_CountsTwice(g, s) ==
  IF isMatched(g, s) \/ ~MapHas(g.queue, s) THEN g
  ELSE [g EXCEPT !.queue[s].searchAttempts = @ + 2]

\* the state change of findMatch: wait time and attempt counter of the caller
findMatch(g, s) ==
  IF isMatched(g, s) \/ ~MapHas(g.queue, s) THEN g
  ELSE [g EXCEPT !.queue[s].searchAttempts = @ + 1]

\* createMatch that forgets to take the picked socket out of the queue
createMatch_KeepsPicked(g, a, b) ==
  LET g1 == [g EXCEPT !.matches = MapSet(MapSet(@, a, b), b, a)]
  IN removeUser(g1, a, TRUE)

createMatch(g, a, b) ==
  LET g1 == [g EXCEPT !.matches = MapSet(MapSet(@, a, b), b, a)]
  IN removeUser(removeUser(g1, a, TRUE), b, TRUE)

\* clearMatch that deletes only the first half
clearMatch_OneHalf(g, a, b) ==
  LET g1 == [g EXCEPT !.matches = MapDelete(@, a)]
  IN IF MapHas(g.matches, a)
     THEN Emit(g1, Effect("matches.delete", a, b, FALSE, FALSE))
     ELSE g1

\* clearMatch that empties the whole table
clearMatch_ClearsTable(g, a, b) ==
  Emit([g EXCEPT !.matches = <<>>], Effect("matches.delete", a, b, FALSE, FALSE))

clearMatch(g, a, b) ==
  LET g1 == [g EXCEPT !.matches = MapDelete(MapDelete(@, a), b)]
  IN IF MapHas(g.matches, a) \/ MapHas(g.matches, b)
     THEN Emit(g1, Effect("matches.delete", a, b, FALSE, FALSE))
     ELSE g1

\* ------------------------------------------------------ handleMatchmaking
\* One closure of handleMatchmaking: its isCancelled flag, its
\* matchmakingInterval variable ("null" or a timer handle), whether that timer
\* is still armed, whether its handle is the one stored in
\* matchmakingIntervals, and whether its 'cancel-match' listener is
\* registered.  stopped records that the program has stopped this driver.
NewDriver == [isCancelled |-> FALSE, interval |-> "null", pending |-> FALSE,
              tracked |-> FALSE, cancelL |-> FALSE, stopped |-> FALSE]

Flag(g, s) == MapHas(g.cancelled, s) /\ g.cancelled[s]

\* matchmakingIntervals.set(s, null): no closure's handle is stored any more
SetIntervalNull(g, s) ==
  [g EXCEPT !.intervals = MapSet(@, s, "null"),
            !.drivers[s] = SeqOf([j \in DOMAIN @ |-> [@[j] EXCEPT !.tracked = FALSE]])]

\* if (matchmakingInterval) { clearTimeout(..); matchmakingInterval = null;
\*                            matchmakingIntervals.set(socket.id, null) }
StopOwnTimer(g, s, i) ==
  IF g.drivers[s][i].interval = "timer"
  THEN SetIntervalNull([g EXCEPT !.drivers[s][i].interval = "null",
                                 !.drivers[s][i].pending = FALSE], s)
  ELSE g

\* const t = matchmakingIntervals.get(m); if (t) { clearTimeout(t); ...set(m, null) }
HasTrackedTimer(g, m) == MapHas(g.intervals, m) /\ g.intervals[m] = "timer"
ClearTrackedTimer(g, m) ==
  IF HasTrackedTimer(g, m)
  THEN SetIntervalNull([g EXCEPT !.drivers[m] = SeqOf([j \in DOMAIN @ |->
          IF @[j].tracked THEN [@[j] EXCEPT !.pending = FALSE] ELSE @[j]])], m)
  ELSE g

MarkStopped(g, s) ==
  [g EXCEPT !.drivers[s] = SeqOf([j \in DOMAIN @ |-> [@[j] EXCEPT !.stopped = TRUE]])]

\* socket.removeAllListeners('cancel-match')
removeAllListeners(g, s) ==
  [g EXCEPT !.indexCancel = @ \ {s},
            !.drivers[s] = SeqOf([j \in DOMAIN @ |-> [@[j] EXCEPT !.cancelL = FALSE]])]

\* the call createMatch(a, b) as an effect, with what holds of a and b in the
\* tables at the moment of the call
CallCreateMatch(g, a, b) ==
  EffectWith("createMatch", a, b,
     [queued  |-> {x \in {a, b} : MapHas(g.queue, x)},
      matched |-> {x \in {a, b} : MapHas(g.matches, x)},
      blocked |-> /\ MapHas(g.queue, a) /\ MapHas(g.queue, b)
                  /\ (g.queue[b].userId \in g.queue[a].blockedUsers
                      \/ g.queue[a].userId \in g.queue[b].blockedUsers)])

\* A wait time as the program obtains it: "elapsed" is Date.now() minus the
\* timestamp of the queue entry of a socket, "field" the waitTime field of
\* that entry, and "default" the constant 0
WaitTime(kind, s) == [kind |-> kind, of |-> s]

getUserWaitTime(g, s) ==
  IF MapHas(g.queue, s) THEN WaitTime("elapsed", s) ELSE WaitTime("default", None)

\* the payload of match-found: matchSocketId is the from of the effect
MatchFoundData(matchUserId, waitTime) ==
  [matchUserId |-> matchUserId, waitTime |-> waitTime]

\* the match branch without the match-found for the socket that was picked
MatchFound_OneSided(g, s, i, m) ==
  LET g1 == [g EXCEPT !.drivers[s][i].isCancelled = TRUE,
                      !.cancelled = MapSet(MapSet(@, s, TRUE), m, TRUE)]
      g2 == ClearTrackedTimer(StopOwnTimer(g1, s, i), m)
      g3 == createMatch(Emit(g2, CallCreateMatch(g2, s, m)), s, m)
      g4 == Emit(g3, EffectWith("match-found", s, m,
                    MatchFoundData(g.queue[m].userId, WaitTime("field", m))))
      g6 == removeAllListeners(g4, s)
      g7 == Emit(g6, Effect("matchmaking-stopped", m, s, FALSE, FALSE))
  IN MarkStopped(MarkStopped(g7, s), m)

\* the branch of checkForMatch taken when findMatch returned m
MatchFound(g, s, i, m) ==
  LET g1 == [g EXCEPT !.drivers[s][i].isCancelled = TRUE,
                      !.cancelled = MapSet(MapSet(@, s, TRUE), m, TRUE)]
      g2 == ClearTrackedTimer(StopOwnTimer(g1, s, i), m)
      g3 == createMatch(Emit(g2, CallCreateMatch(g2, s, m)), s, m)
      userWaitTime == getUserWaitTime(g3, s)
      g4 == Emit(g3, EffectWith("match-found", s, m,
                    MatchFoundData(g.queue[m].userId, WaitTime("field", m))))
      g5 == Emit(g4, EffectWith("match-found", m, s, MatchFoundData(s, userWaitTime)))
      g6 == removeAllListeners(g5, s)
      g7 == Emit(g6, Effect("matchmaking-stopped", m, s, FALSE, FALSE))
  IN MarkStopped(MarkStopped(g7, s), m)

\* the branch of checkForMatch that gives up: socket not queued, or matched
GiveUp(g, s, i) ==
  StopOwnTimer([g EXCEPT !.drivers[s][i].isCancelled = TRUE,
                         !.cancelled = MapSet(@, s, TRUE)], s, i)

\* m is the value findMatch returns when it is reached
checkForMatch(g, s, i, m) ==
  IF g.drivers[s][i].isCancelled \/ Flag(g, s) THEN g
  ELSE IF ~MapHas(g.queue, s) THEN GiveUp(g, s, i)
  ELSE IF isMatched(g, s) THEN GiveUp(g, s, i)
  ELSE LET g1 == Emit(findMatch(g, s),
                      EffectWith("findMatch", s, None,
                         IF g.drivers[s][i].stopped THEN "stopped" ELSE "running"))
       IN IF m # None THEN MatchFound(g1, s, i, m)
          ELSE Emit(g1, Effect("searching", s, None, FALSE, FALSE))

\* getPollingInterval without the 10 s ceiling
getPollingInterval_NoCap(size, count) ==
  IF size = 1 THEN 2^(count \div 5) * 1000
  ELSE IF size <= 2 THEN 500
  ELSE IF count < 5 THEN 1000
  ELSE IF count < 15 THEN 2000
  ELSE 3000

\* getPollingInterval, in ms, from getQueueSize() and the closure's checkCount
getPollingInterval(size, count) ==
  IF size = 1 THEN Min(10000, 2^(count \div 5) * 1000)
  ELSE IF size <= 2 THEN 500
  ELSE IF count < 5 THEN 1000
  ELSE IF count < 15 THEN 2000
  ELSE 3000

\* scheduleNext that returns without arming the timer
scheduleNext_NoTimer(g, s, i) ==
  IF g.drivers[s][i].isCancelled THEN g
  ELSE IF isMatched(g, s) THEN [g EXCEPT !.drivers[s][i].isCancelled = TRUE]
  ELSE g

scheduleNext(g, s, i) ==
  IF g.drivers[s][i].isCancelled THEN g
  ELSE IF isMatched(g, s) THEN [g EXCEPT !.drivers[s][i].isCancelled = TRUE]
  ELSE [g EXCEPT !.intervals = MapSet(@, s, "timer"),
                 !.drivers[s] = SeqOf([j \in DOMAIN @ |->
                     IF j = i THEN [@[j] EXCEPT !.interval = "timer", !.pending = TRUE,
                                                !.tracked = TRUE]
                     ELSE [@[j] EXCEPT !.tracked = FALSE]])]

Running(g, s, i) ==
  ~g.drivers[s][i].isCancelled /\ ~Flag(g, s) /\ ~isMatched(g, s)

\* the setTimeout callback armed by scheduleNext
timerCallback(g, s, i, m) ==
  LET g0 == [g EXCEPT !.drivers[s][i].pending = FALSE]
      g1 == checkForMatch(g0, s, i, m)
  IN IF Running(g0, s, i)
     THEN (IF Running(g1, s, i) THEN scheduleNext(g1, s, i) ELSE g1)
     ELSE g0

\* startMatchmaking that arms the timer without the initial check
startMatchmaking_NoInitialCheck(g, s, i, m) ==
  scheduleNext(StopOwnTimer(g, s, i), s, i)

startMatchmaking(g, s, i, m) ==
  LET g1 == checkForMatch(StopOwnTimer(g, s, i), s, i, m)
  IN IF g1.drivers[s][i].isCancelled THEN g1 ELSE scheduleNext(g1, s, i)

\* handleMatchmaking(io, socket): a new closure, the two shared entries reset,
\* the initial check, then the closure's listeners
handleMatchmaking(g, s, m) ==
  LET i == Len(g.drivers[s]) + 1
      g1 == [g EXCEPT !.drivers[s] = Append(@, NewDriver)]
      g2 == [SetIntervalNull(g1, s) EXCEPT !.cancelled = MapSet(@, s, FALSE)]
      g3 == startMatchmaking(g2, s, i, m)
  IN [g3 EXCEPT !.drivers[s][i].cancelL = TRUE]

\* the closure's 'cancel-match' listener
driverCancel(g, s, i) ==
  LET g1 == [g EXCEPT !.drivers[s][i].isCancelled = TRUE,
                      !.drivers[s][i].stopped = TRUE,
                      !.cancelled = MapSet(@, s, TRUE)]
      g2 == removeUser(StopOwnTimer(g1, s, i), s, FALSE)
  IN Emit(g2, Effect("match-cancelled", s, None, FALSE, FALSE))

\* the closure's 'disconnect' listener
driverDisconnect(g, s, i) ==
  LET g1 == [g EXCEPT !.drivers[s][i].isCancelled = TRUE,
                      !.drivers[s][i].stopped = TRUE,
                      !.cancelled = MapSet(@, s, TRUE)]
      g2 == StopOwnTimer(g1, s, i)
      g3 == [g2 EXCEPT !.intervals = MapDelete(@, s), !.cancelled = MapDelete(@, s),
                       !.drivers[s] = SeqOf([j \in DOMAIN @ |-> [@[j] EXCEPT !.tracked = FALSE]])]
  IN IF ~isMatched(g3, s) THEN removeUser(g3, s, FALSE) ELSE g3

\* the 'cancel-match' listeners of closures 1..n of s, in registration order
RECURSIVE RunCancelListeners(_, _, _)
RunCancelListeners(g, s, n) ==
  IF n = 0 THEN g
  ELSE LET g1 == RunCancelListeners(g, s, n - 1)
       IN IF g1.drivers[s][n].cancelL THEN driverCancel(g1, s, n) ELSE g1

\* the 'disconnect' listeners of closures 1..n of s, in registration order
RECURSIVE RunDisconnectListeners(_, _, _)
RunDisconnectListeners(g, s, n) ==
  IF n = 0 THEN g
  ELSE driverDisconnect(RunDisconnectListeners(g, s, n - 1), s, n)

\* ------------------------------------------------------- socket handlers
\* 'cancel-match': the listener of index.ts, then those of the closures
cancelMatch(g, s) ==
  LET g1 == IF s \in g.indexCancel
            THEN Emit(removeUser(g, s, FALSE),
                      Effect("match-cancelled", s, None, FALSE, FALSE))
            ELSE g
  IN RunCancelListeners(g1, s, Len(g1.drivers[s]))

\* 'disconnect': the socket leaves io.sockets.sockets, then the listener of
\* index.ts, then those of the closures
disconnect(g, s) ==
  LET g1 == removeUser([g EXCEPT !.connected = @ \ {s}], s, FALSE)
  IN RunDisconnectListeners(g1, s, Len(g1.drivers[s]))

\* a handler suspended at an await or a setTimeout, with the data it closed
\* over; slot tells apart the suspended handlers of one socket, cancelled
\* records that a cancel-match was handled while it waited and no find-match
\* was received since
FreeSlot(g, s) ==
  CHOOSE k \in 1..(Cardinality(g.inflight[s]) + 1) :
    /\ \A o \in g.inflight[s] : o.slot # k
    /\ \A j \in 1..(k - 1) : \E o \in g.inflight[s] : o.slot = j
Suspended(g, s, kind, prefs) ==
  [cancelled |-> FALSE, prefs |-> prefs, slot |-> FreeSlot(g, s), kind |-> kind]

\* 'find-match' up to its await: an existing match is cleared
findMatchReceived(g, s, prefs) ==
  LET g1 == IF isMatched(g, s) THEN clearMatch(g, s, getMatch(g, s)) ELSE g
  IN [g1 EXCEPT !.inflight[s] = @ \cup {Suspended(g1, s, "find-match", prefs)}]

\* find-match that gives up when Block.find fails
findMatchResumed_DropsOnError(g, s, op, ok, m) ==
  LET g1 == [g EXCEPT !.inflight[s] = @ \ {op}]
      g2 == addUser(g1, s, UserOf(s), op.prefs, BlockedBy(UserOf(s)))
  IN IF ok THEN handleMatchmaking(g2, s, m) ELSE g1

\* 'find-match' after its await; ok is whether Block.find resolved
findMatchResumed(g, s, op, ok, m) ==
  LET g1 == [g EXCEPT !.inflight[s] = @ \ {op}]
      g2 == addUser(g1, s, UserOf(s), op.prefs,
                    IF ok THEN BlockedBy(UserOf(s)) ELSE {})
  IN handleMatchmaking(g2, s, m)

\* the payload of the 'match-ended' events of a skip
MatchEnded(to, from, autoRequeue, disc) ==
  [Effect("match-ended", to, from, autoRequeue, disc) EXCEPT !.data = "skipped"]

\* 'skip' of a matched socket: 'match-ended' to the match, then to the sender
skipNotify(g, s, p, autoRequeue) ==
  Emit(Emit(g, MatchEnded(p, s, TRUE, TRUE)), MatchEnded(s, s, autoRequeue, TRUE))

\* if (interval of x) { clearTimeout; matchmakingIntervals.set(x, null);
\*                      matchmakingCancelled.set(x, true) }
skipStopTimer(g, x) ==
  IF HasTrackedTimer(g, x)
  THEN [ClearTrackedTimer(g, x) EXCEPT
          !.cancelled = MapSet(@, x, TRUE),
          !.drivers[x] = SeqOf([j \in DOMAIN @ |->
             IF g.drivers[x][j].tracked THEN [@[j] EXCEPT !.stopped = TRUE]
             ELSE @[j]])]
  ELSE g

\* clearMatch, and the forced removal if a half is left
skipUnpair(g, s, p) ==
  LET g1 == clearMatch(g, s, p)
  IN IF isMatched(g1, s) \/ isMatched(g1, p)
     THEN removeUser(removeUser(g1, s, FALSE), p, FALSE)
     ELSE g1

\* setTimeout(.., 200) of the auto-requeue
skipRequeue(g, s, autoRequeue, hasUserId, prefs) ==
  IF autoRequeue /\ hasUserId
  THEN [g EXCEPT !.inflight[s] = @ \cup {Suspended(g, s, "requeue-timer", prefs)}]
  ELSE g

\* skip that deletes the pairing before it notifies the two sockets
skip_UnpairBeforeNotify(g, s, autoRequeue, hasUserId, prefs) ==
  LET p == getMatch(g, s)
      g1 == skipUnpair(g, s, p)
      g2 == skipNotify(g1, s, p, autoRequeue)
      g3 == skipStopTimer(skipStopTimer(g2, s), p)
  IN IF p # None
     THEN skipRequeue(g3, s, autoRequeue, hasUserId, prefs)
     ELSE Emit(removeUser(g, s, FALSE), MatchEnded(s, None, FALSE, FALSE))

\* 'skip'
skip(g, s, autoRequeue, hasUserId, prefs) ==
  LET p == getMatch(g, s)
      g1 == skipNotify(g, s, p, autoRequeue)
      g2 == skipStopTimer(skipStopTimer(g1, s), p)
      g3 == skipUnpair(g2, s, p)
  IN IF p # None
     THEN skipRequeue(g3, s, autoRequeue, hasUserId, prefs)
     ELSE Emit(removeUser(g, s, FALSE), MatchEnded(s, None, FALSE, FALSE))

\* the 200 ms timer of skip, up to its await
requeueTimer(g, s, op) ==
  LET g1 == [g EXCEPT !.inflight[s] = @ \ {op}]
      g2 == IF getMatch(g1, s) # None THEN removeUser(g1, s, FALSE) ELSE g1
  IN IF getMatch(g2, s) = None
     THEN [g2 EXCEPT !.inflight[s] = @ \cup {[op EXCEPT !.kind = "requeue-fetch"]}]
     ELSE g2

\* the 200 ms timer of skip, after its await
requeueResumed(g, s, op, ok, m) ==
  LET g1 == [g EXCEPT !.inflight[s] = @ \ {op}]
      g2 == addUser(g1, s, UserOf(s), op.prefs,
                    IF ok THEN BlockedBy(UserOf(s)) ELSE {})
  IN Emit(handleMatchmaking(g2, s, m), Effect("skip-success", s, None, TRUE, FALSE))

\* ------------------------------------------------------------ handleChat
\* message texts a client may send; filter.isProfane holds of the last one
Texts == {"hi", "yo", "darn"}
isProfane(text) == text = "darn"

\* readings of Date.now()
Clock == 1..2

\* send-message that reads the clock once more and emits to the match twice
sendMessage_SendsTwice(g, s, text, t1, t2) ==
  LET p == getMatch(g, s)
  IN IF p = None
     THEN Emit(g, EffectWith("error", s, s, "No active match"))
     ELSE IF isProfane(text)
     THEN Emit(g, EffectWith("message-blocked", s, s, "Profanity detected"))
     ELSE LET e == EffectWith("receive-message", p, s,
                     [message |-> text, timestamp |-> t2, senderId |-> s])
          IN Emit(Emit(Emit(g, EffectWith("receive-message", s, s,
                     [message |-> text, timestamp |-> t1, senderId |-> s])), e), e)

\* send-message without the moderation step
sendMessage_NoModeration(g, s, text, t1, t2) ==
  LET p == getMatch(g, s)
  IN IF p = None
     THEN Emit(g, EffectWith("error", s, s, "No active match"))
     ELSE Emit(Emit(g, EffectWith("receive-message", s, s,
                     [message |-> text, timestamp |-> t1, senderId |-> s])),
               EffectWith("receive-message", p, s,
                     [message |-> text, timestamp |-> t2, senderId |-> s]))

\* socket.on('send-message'); t1 and t2 are the two readings of Date.now()
sendMessage(g, s, text, t1, t2) ==
  LET p == getMatch(g, s)
  IN IF p = None
     THEN Emit(g, EffectWith("error", s, s, "No active match"))
     ELSE IF isProfane(text)
     THEN Emit(g, EffectWith("message-blocked", s, s, "Profanity detected"))
     ELSE Emit(Emit(g, EffectWith("receive-message", s, s,
                     [message |-> text, timestamp |-> t1, senderId |-> s])),
               EffectWith("receive-message", p, s,
                     [message |-> text, timestamp |-> t2, senderId |-> s]))

\* socket.on('typing'), socket.on('stop-typing')
typing(g, s) ==
  IF getMatch(g, s) # None
  THEN Emit(g, EffectWith("user-typing", getMatch(g, s), s, None))
  ELSE g
stopTyping(g, s) ==
  IF getMatch(g, s) # None
  THEN Emit(g, EffectWith("user-stopped-typing", getMatch(g, s), s, None))
  ELSE g

\* ----------------------------------------------------------- handleVideo
\* what a client may name as data.to, and the signalling payloads
Targets == Sessions \cup {None}
Payloads == {"sdp"}

\* forwards ev to data.to only if data.to is the match of the sender
forward(g, s, ev, to, payload) ==
  IF getMatch(g, s) # None /\ getMatch(g, s) = to
  THEN Emit(g, EffectWith(ev, to, s, [payload |-> payload, from |-> s]))
  ELSE g

\* offer that forwards to data.to whenever the sender has a match
offer_NoTargetCheck(g, s, to, payload) ==
  IF getMatch(g, s) # None /\ to # None
  THEN Emit(g, EffectWith("offer", to, s, [payload |-> payload, from |-> s]))
  ELSE g

\* socket.on('offer'), socket.on('answer'), socket.on('ice-candidate')
offer(g, s, to, payload) == forward(g, s, "offer", to, payload)
answer(g, s, to, payload) == forward(g, s, "answer", to, payload)
iceCandidate(g, s, to, payload) == forward(g, s, "ice-candidate", to, payload)

\* video-toggle that sends the opposite flag
videoToggle_Negates(g, s, enabled) ==
  IF getMatch(g, s) # None
  THEN Emit(g, EffectWith("peer-video-toggle", getMatch(g, s), s, [enabled |-> ~enabled]))
  ELSE g

\* socket.on('video-toggle'), socket.on('audio-toggle')
videoToggle(g, s, enabled) ==
  IF getMatch(g, s) # None
  THEN Emit(g, EffectWith("peer-video-toggle", getMatch(g, s), s, [enabled |-> enabled]))
  ELSE g
audioToggle(g, s, enabled) ==
  IF getMatch(g, s) # None
  THEN Emit(g, EffectWith("peer-audio-toggle", getMatch(g, s), s, [enabled |-> enabled]))
  ELSE g

\* --------------------------------------------------------- specification
\* the history variables after a handler, from its effects in program order:
\* a created or deleted match forgets what its two sockets were told, and a
\* match-found records the match it names
Forget(h, x, v) == IF x \in DOMAIN h THEN [h EXCEPT ![x] = v] ELSE h
RECURSIVE Notify(_, _)
Notify(n, trace) ==
  IF trace = <<>> THEN n
  ELSE LET e == Head(trace)
           n1 == IF e.ev \in {"matches.delete", "createMatch"}
                 THEN Forget(Forget(n, e.to, None), e.from, None)
                 ELSE IF e.ev = "match-found"
                 THEN Forget(n, e.to, e.from)
                 ELSE n
       IN Notify(n1, Tail(trace))
RECURSIVE NewMatch(_, _)
NewMatch(h, trace) ==
  IF trace = <<>> THEN h
  ELSE LET e == Head(trace)
           h1 == IF e.ev \in {"matches.delete", "createMatch"}
                 THEN Forget(Forget(h, e.to, <<>>), e.from, <<>>)
                 ELSE h
       IN NewMatch(h1, Tail(trace))

Tables(g) ==
  /\ queue' = g.queue
  /\ matches' = g.matches
  /\ tierBuckets' = g.tierBuckets
  /\ matchmakingIntervals' = g.intervals
  /\ matchmakingCancelled' = g.cancelled
  /\ drivers' = g.drivers
  /\ indexCancel' = g.indexCancel
  /\ connected' = g.connected
  /\ inflight' = g.inflight
  /\ UNCHANGED <<queueSize, checkCount, interval, candidates, selected>>

Commit(g) ==
  /\ Tables(g)
  /\ notified' = Notify(notified, g.trace)
  /\ submitted' = NewMatch(submitted, g.trace)
  /\ relayed' = NewMatch(relayed, g.trace)

\* new MatchmakingQueue(): the queue and the buckets of the three tiers
EmptyQueue ==
  /\ queue = <<>>
  /\ tierBuckets = [t \in Tiers |-> {}]

\* no match, no closure, no handler in flight, every socket connected
NoSearch ==
  /\ matches = <<>>
  /\ matchmakingIntervals = <<>>
  /\ matchmakingCancelled = <<>>
  /\ drivers = [s \in Sessions |-> <<>>]
  /\ indexCancel = Sessions
  /\ connected = Sessions
  /\ inflight = [s \in Sessions |-> {}]
  /\ notified = [s \in Sessions |-> None]
  /\ submitted = [s \in Sessions |-> <<>>]
  /\ relayed = [s \in Sessions |-> <<>>]

\* getPollingInterval was not called
NoPoll == queueSize = 0 /\ checkCount = 0 /\ interval = 0

\* no selection was made
NoSelection == candidates = <<>> /\ selected = None

Init == EmptyQueue /\ NoSearch /\ NoPoll /\ NoSelection

\* handleMatchmaking calls made or due, of one socket and of all
RECURSIVE SumOver(_, _)
SumOver(f, S) ==
  IF S = {} THEN 0
  ELSE LET x == CHOOSE y \in S : TRUE IN f[x] + SumOver(f, S \ {x})
Starts(s) == Len(drivers[s]) + Cardinality(inflight[s])
TotalStarts == SumOver([s \in Sessions |-> Starts(s)], Sessions)

\* room for one more handler that ends in handleMatchmaking
MayStart(s) ==
  /\ Cardinality(inflight[s]) < MaxInFlight
  /\ TotalStarts < MaxStarts

\* what Block.find can give the handler of s: the stored list, or an error
Fetched(s, ok) == IF ok THEN BlockedBy(UserOf(s)) ELSE {}

\* the values the initial findMatch of a new closure may return after addUser
InitialResults(s, op, ok) ==
  UNION {findMatchResults(addUser(G, s, UserOf(s), op.prefs, Fetched(s, ok)), s, w) :
           w \in BOOLEAN}

\* the values findMatch may return to a poll of s in the current state
PollResults(s) == UNION {findMatchResults(G, s, w) : w \in BOOLEAN}

\* the inputs of each handler that can run in the current state: the event
\* data the client chose and the outcomes of the external calls
FindMatchInputs(s) ==
  IF s \in connected /\ MayStart(s) THEN PrefChoices(s) ELSE {}

ResumeInputs(s, kind) ==
  {in \in {o \in inflight[s] : o.kind = kind} \X BOOLEAN \X (Sessions \cup {None}) :
      in[3] \in InitialResults(s, in[1], in[2])}

SkipInputs(s) ==
  IF s \notin connected THEN {}
  ELSE LET p0 == CHOOSE p \in PrefChoices(s) : TRUE
       IN IF ~isMatched(G, s) THEN {<<FALSE, TRUE, p0>>, <<TRUE, TRUE, p0>>}
          ELSE {<<FALSE, TRUE, p0>>, <<TRUE, FALSE, p0>>}
               \cup (IF MayStart(s) THEN {<<TRUE, TRUE, p>> : p \in PrefChoices(s)}
                     ELSE {})

RequeueTimerInputs(s) == {o \in inflight[s] : o.kind = "requeue-timer"}

PollInputs(s, i) ==
  IF /\ i \in DOMAIN drivers[s]
     /\ drivers[s][i].pending
     /\ MapHas(queue, s) => queue[s].searchAttempts < MaxAttempts
  THEN PollResults(s)
  ELSE {}

\* a find-match is received; the marks left by earlier cancel-match events
\* on the suspended handlers of s are dropped
FollowedByFindMatch(g, s) ==
  [g EXCEPT !.inflight[s] = {[op EXCEPT !.cancelled = FALSE] : op \in @}]

FindMatchEvent(s) ==
  \E prefs \in FindMatchInputs(s) :
    Commit(findMatchReceived(FollowedByFindMatch(G, s), s, prefs))

FindMatchResume(s) ==
  \E in \in ResumeInputs(s, "find-match") :
    Commit(findMatchResumed(G, s, in[1], in[2], in[3]))

\* a cancel-match is handled; the suspended find-match handlers of s are
\* marked as older than a cancel-match
OvertakenByCancel(g, s) ==
  [g EXCEPT !.inflight[s] = {IF op.kind = "find-match"
                             THEN [op EXCEPT !.cancelled = TRUE] ELSE op : op \in @}]

CancelMatchEvent(s) ==
  /\ s \in connected
  /\ Commit(OvertakenByCancel(cancelMatch(G, s), s))

SkipEvent(s) ==
  \E in \in SkipInputs(s) : Commit(skip(G, s, in[1], in[2], in[3]))

RequeueTimerFires(s) ==
  \E op \in RequeueTimerInputs(s) : Commit(requeueTimer(G, s, op))

RequeueResume(s) ==
  \E in \in ResumeInputs(s, "requeue-fetch") :
    Commit(requeueResumed(G, s, in[1], in[2], in[3]))

\* the poll timer of closure i of s fires
PollTimerFires(s, i) ==
  \E m \in PollInputs(s, i) : Commit(timerCallback(G, s, i, m))

DisconnectEvent(s) ==
  /\ s \in connected
  /\ Commit(disconnect(G, s))

Next ==
  \E s \in Sessions :
    \/ FindMatchEvent(s)
    \/ FindMatchResume(s)
    \/ CancelMatchEvent(s)
    \/ SkipEvent(s)
    \/ RequeueTimerFires(s)
    \/ RequeueResume(s)
    \/ \E i \in 1..MaxStarts : PollTimerFires(s, i)
    \/ DisconnectEvent(s)

Spec == Init /\ [][Next]_vars

\* ------------------------------------------- specification with the relay
\* the texts of the receive-message effects emitted to p, in program order
RECURSIVE TextsTo(_, _)
TextsTo(trace, p) ==
  IF trace = <<>> THEN <<>>
  ELSE IF Head(trace).ev = "receive-message" /\ Head(trace).to = p
       THEN <<Head(trace).data.message>> \o TextsTo(Tail(trace), p)
       ELSE TextsTo(Tail(trace), p)

\* a handler of chat.ts or video.ts ran: the tables are as the handler left
\* them and no match was made or ended
Relay(g) ==
  /\ Tables(g)
  /\ UNCHANGED <<notified, submitted, relayed>>

SendMessageEvent(s) ==
  /\ s \in connected
  /\ \E text \in Texts : \E t1, t2 \in Clock :
       LET p == getMatch(G, s)
           g == sendMessage(G, s, text, t1, t2)
       IN /\ t1 <= t2
          /\ p # None => Len(submitted[s]) + Len(submitted[p]) < MaxMsgs
          /\ Tables(g)
          /\ notified' = notified
          /\ submitted' = IF p # None THEN [submitted EXCEPT ![s] = Append(@, text)]
                          ELSE submitted
          /\ relayed' = IF p # None THEN [relayed EXCEPT ![s] = @ \o TextsTo(g.trace, p)]
                        ELSE relayed

TypingEvent(s) == s \in connected /\ Relay(typing(G, s))
StopTypingEvent(s) == s \in connected /\ Relay(stopTyping(G, s))
OfferEvent(s) ==
  s \in connected /\ \E to \in Targets : \E pl \in Payloads : Relay(offer(G, s, to, pl))
AnswerEvent(s) ==
  s \in connected /\ \E to \in Targets : \E pl \in Payloads : Relay(answer(G, s, to, pl))
IceCandidateEvent(s) ==
  s \in connected /\ \E to \in Targets : \E pl \in Payloads : Relay(iceCandidate(G, s, to, pl))
VideoToggleEvent(s) ==
  s \in connected /\ \E enabled \in BOOLEAN : Relay(videoToggle(G, s, enabled))
AudioToggleEvent(s) ==
  s \in connected /\ \E enabled \in BOOLEAN : Relay(audioToggle(G, s, enabled))

\* the step made or scheduled no more than MaxRelayStarts handleMatchmaking calls
WithinRelayStarts == TotalStarts' <= MaxRelayStarts

RelayNext ==
  \E s \in Sessions :
    \/ FindMatchEvent(s) /\ WithinRelayStarts
    \/ FindMatchResume(s) /\ WithinRelayStarts
    \/ CancelMatchEvent(s) /\ WithinRelayStarts
    \/ SkipEvent(s) /\ WithinRelayStarts
    \/ RequeueTimerFires(s) /\ WithinRelayStarts
    \/ RequeueResume(s) /\ WithinRelayStarts
    \/ \E i \in 1..MaxRelayStarts : PollTimerFires(s, i) /\ WithinRelayStarts
    \/ DisconnectEvent(s) /\ WithinRelayStarts
    \/ SendMessageEvent(s)
    \/ TypingEvent(s)
    \/ StopTypingEvent(s)
    \/ OfferEvent(s)
    \/ AnswerEvent(s)
    \/ IceCandidateEvent(s)
    \/ VideoToggleEvent(s)
    \/ AudioToggleEvent(s)

RelaySpec == Init /\ [][RelayNext]_vars

\* ------------------------------------- specification with fair poll timers
\* the handlers that queue, poll and remove a socket, in runs of at most
\* MaxFairStarts handleMatchmaking calls
WithinFairStarts == TotalStarts' <= MaxFairStarts

PollFires(s) == \E i \in 1..MaxFairStarts : PollTimerFires(s, i) /\ WithinFairStarts

FairNext ==
  \E s \in Sessions :
    \/ FindMatchEvent(s) /\ WithinFairStarts
    \/ FindMatchResume(s) /\ WithinFairStarts
    \/ CancelMatchEvent(s) /\ WithinFairStarts
    \/ SkipEvent(s) /\ WithinFairStarts
    \/ PollFires(s)
    \/ DisconnectEvent(s) /\ WithinFairStarts

\* Node runs the callback of every armed timer: the poll timers of a socket
\* are not left waiting for ever
FairSpec ==
  /\ Init /\ [][FairNext]_vars
  /\ \A s \in Sessions : WF_vars(PollFires(s))

\* -------------------------------------- specification of getPollingInterval
\* the function is applied to every queue size and checkCount within bounds
PollInit ==
  /\ EmptyQueue /\ NoSearch
  /\ queueSize \in 0..MaxQueue
  /\ checkCount \in 0..MaxChecks
  /\ interval = 0
  /\ NoSelection

GetPollingInterval ==
  /\ interval = 0
  /\ interval' = getPollingInterval(queueSize, checkCount)
  /\ UNCHANGED <<queue, matches, tierBuckets, matchmakingIntervals,
                 matchmakingCancelled, drivers, indexCancel, connected, inflight,
                 notified, submitted, relayed, queueSize, checkCount,
                 candidates, selected>>

PollNext == GetPollingInterval

PollSpec == PollInit /\ [][PollNext]_vars

\* ------------------------------------------------ specification of findMatch
\* findMatch is applied to every queue that addUser can build for the three
\* sockets from these preferences and from the block lists a fetch can give
QueuePrefs ==
  {[tier |-> t, gender |-> gd, region |-> r] :
     t \in {"free", "premium", "gold"}, gd \in {"any", "male"}, r \in {"any", "in"}}

\* for one socket: not queued, or queued with preferences and a block list
QueueChoices(s) ==
  {<<FALSE, CHOOSE p \in QueuePrefs : TRUE, {}>>}
  \cup {<<TRUE, p, Fetched(s, ok)>> : p \in QueuePrefs, ok \in BOOLEAN}

\* the tables of a new MatchmakingQueue, as the value threaded through handlers
NewQueue ==
  [trace |-> <<>>, queue |-> <<>>, matches |-> <<>>,
   tierBuckets |-> ("free" :> {}) @@ ("premium" :> {}) @@ ("pro" :> {}),
   drivers |-> <<>>, indexCancel |-> {}, connected |-> {}, inflight |-> <<>>,
   intervals |-> <<>>, cancelled |-> <<>>]

Enqueue(g, s, c) == IF c[1] THEN addUser(g, s, UserOf(s), c[2], c[3]) ELSE g

QueueInit ==
  /\ \E c1 \in QueueChoices("s1") : \E c2 \in QueueChoices("s2") :
     \E c3 \in QueueChoices("s3") :
       LET g == Enqueue(Enqueue(Enqueue(NewQueue, "s1", c1), "s2", c2), "s3", c3)
       IN queue = g.queue /\ tierBuckets = g.tierBuckets
  /\ NoSearch
  /\ NoPoll
  /\ NoSelection

FindMatchCall(s) ==
  /\ MapHas(queue, s)
  /\ queue[s].searchAttempts < MaxAttempts
  /\ Commit(findMatch(G, s))

QueueNext == \E s \in Sessions : FindMatchCall(s)

QueueSpec == QueueInit /\ [][QueueNext]_vars

\* ------------------------- specification with overlapping handlers
\* A socket may send find-match while the 200 ms timer of its skip is armed,
\* so two of its handlers are suspended at once.  Every socket sends the same
\* preferences and always its user id; cancel-match and disconnect are not
\* sent.
OverlapPrefs == [tier |-> "free", gender |-> "any", region |-> "any"]

OverlapMayStart(s) ==
  /\ s \in connected
  /\ Cardinality(inflight[s]) < MaxOverlapInFlight
  /\ TotalStarts < MaxOverlapStarts

OverlapFindMatch(s) ==
  /\ OverlapMayStart(s)
  /\ Commit(findMatchReceived(FollowedByFindMatch(G, s), s, OverlapPrefs))

OverlapSkip(s) ==
  /\ OverlapMayStart(s)
  /\ isMatched(G, s)
  /\ Commit(skip(G, s, TRUE, TRUE, OverlapPrefs))

OverlapNext ==
  \E s \in Sessions :
    \/ OverlapFindMatch(s)
    \/ FindMatchResume(s)
    \/ OverlapSkip(s)
    \/ RequeueTimerFires(s)
    \/ RequeueResume(s)
    \/ \E i \in 1..MaxOverlapStarts : PollTimerFires(s, i)

OverlapSpec == Init /\ [][OverlapNext]_vars

\* ------------------------------------- specification of the selection
\* what calculateMatchScore is given for one candidate: tierMatch and the
\* candidate's searchAttempts; the extremes of the penalty are both drawn
ScoreInputs == BOOLEAN \X {0, 10}

\* the candidates array of n sockets c1..cn, scored with the smallest wait
\* bonus and the smallest random term
SocketIds == <<"c1", "c2", "c3", "c4", "c5", "c6", "c7", "c8">>
Scored(in) ==
  [k \in 1..Len(in) |->
     [user |-> SocketIds[k], score |-> calculateMatchScore(in[k][1], 0, in[k][2], 0)]]

SelectInit ==
  /\ EmptyQueue /\ NoSearch /\ NoPoll
  /\ \E n \in 1..MaxCandidates : \E in \in [1..n -> ScoreInputs] :
       candidates = Scored(in)
  /\ selected = None

Select ==
  /\ selected = None
  /\ \E r \in 0..(RandomSteps - 1) : selected' = select(candidates, r)
  /\ UNCHANGED <<queue, matches, tierBuckets, matchmakingIntervals,
                 matchmakingCancelled, drivers, indexCancel, connected, inflight,
                 notified, submitted, relayed, queueSize, checkCount, interval,
                 candidates>>

SelectNext == Select

SelectSpec == SelectInit /\ [][SelectNext]_vars

\* ------------------------------------------------------------- properties
\* the effects of one kind in a handler's trace, and where an effect occurs
EffectsOf(g, ev) == {g.trace[k] : k \in {j \in DOMAIN g.trace : g.trace[j].ev = ev}}
PositionsOf(g, e) == {k \in DOMAIN g.trace : g.trace[k] = e}
DeletePositions(g) == {k \in DOMAIN g.trace : g.trace[k].ev = "matches.delete"}

\* closures of s whose timer is armed, and those among them that would poll
Armed(g, s) == {i \in DOMAIN g.drivers[s] : g.drivers[s][i].pending}
Polling(g, s) == {i \in Armed(g, s) : Running(g, s, i)}
Polled(s) == MapHas(queue, s) /\ queue[s].searchAttempts >= 2

\* C1: in every reachable state no socket is both a key of the queue and a
\* key of the matches table.
C1_QueuedXorPaired == (DOMAIN queue) \cap (DOMAIN matches) = {}

\* a polled socket is still queued while two others are paired
C1_Witness ==
  \E s \in Sessions : Polled(s) /\ Cardinality(DOMAIN matches) = 2

\* C2: in every reachable state the matches table is symmetric and pairs
\* distinct sockets: matches[a] = b implies a # b and matches[b] = a.
C2_SymmetricPairs ==
  \A a \in DOMAIN matches :
    /\ matches[a] # a
    /\ MapHas(matches, matches[a])
    /\ matches[matches[a]] = a

\* a pairing of a socket that searched again after an earlier search ended
C2_Witness ==
  \E a \in DOMAIN matches :
    Len(drivers[a]) >= 2 /\ Len(drivers[matches[a]]) >= 1 /\ matches[matches[a]] = a

\* what C3 asks of the result g of one handler run from the current state
CreateMatchAtomic(g) ==
  /\ Cardinality(EffectsOf(g, "createMatch")) <= 1
  /\ \A e \in EffectsOf(g, "createMatch") :
       /\ e.to # e.from
       /\ e.data.queued = {e.to, e.from}
       /\ e.data.matched = {}
       /\ ~MapHas(g.queue, e.to) /\ ~MapHas(g.queue, e.from)
       /\ getMatch(g, e.to) = e.from /\ getMatch(g, e.from) = e.to
       /\ \A c \in (DOMAIN queue) \ {e.to, e.from} :
            MapHas(g.queue, c) /\ g.drivers[c] = drivers[c]

\* C3: whenever a handler calls createMatch(a, b), a and b are distinct, both
\* queued and neither matched at the call, both are out of the queue and
\* matched with each other when the handler returns, one handler creates at
\* most one pairing, and the sockets that were queued besides a and b stay
\* queued with their drivers untouched; a poll of a queued socket either
\* pairs that socket or leaves its timer armed.
C3_CreateMatchAtomic ==
  \A s \in Sessions :
    /\ \A in \in ResumeInputs(s, "find-match") :
         CreateMatchAtomic(findMatchResumed(G, s, in[1], in[2], in[3]))
    /\ \A in \in ResumeInputs(s, "requeue-fetch") :
         CreateMatchAtomic(requeueResumed(G, s, in[1], in[2], in[3]))
    /\ \A i \in Armed(G, s) : \A m \in PollResults(s) :
         LET g == timerCallback(G, s, i, m)
         IN /\ CreateMatchAtomic(g)
            /\ (MapHas(queue, s) /\ Running(G, s, i)) =>
                 (isMatched(g, s) \/ g.drivers[s][i].pending)

\* s3 was paired with one of s1, s2 while the other is queued with a live driver
C3_Witness ==
  \E a \in {"s1", "s2"} : \E b \in {"s1", "s2"} \ {a} :
    /\ getMatch(G, "s3") = a
    /\ MapHas(queue, b) /\ Armed(G, b) # {} /\ ~Flag(G, b)

MutuallyBlocked(a, b) ==
  \/ queue[b].userId \in queue[a].blockedUsers
  \/ queue[a].userId \in queue[b].blockedUsers

\* what C4 asks of the result g of one handler run
NoBlockedPair(g) == \A e \in EffectsOf(g, "createMatch") : ~e.data.blocked

\* C4: no handler calls createMatch(a, b) when the blockedUsers of a's queue
\* entry holds b's userId or the other way round, in any phase of findMatch;
\* and when the only two queued sockets block each other, a poll of either
\* leaves both queued and emits no match-found.
C4_NeverPairBlocked ==
  /\ \A s \in Sessions :
       /\ \A in \in ResumeInputs(s, "find-match") :
            NoBlockedPair(findMatchResumed(G, s, in[1], in[2], in[3]))
       /\ \A in \in ResumeInputs(s, "requeue-fetch") :
            NoBlockedPair(requeueResumed(G, s, in[1], in[2], in[3]))
       /\ \A i \in Armed(G, s) : \A m \in PollResults(s) :
            NoBlockedPair(timerCallback(G, s, i, m))
  /\ \A a \in Sessions : \A b \in Sessions \ {a} :
       (DOMAIN queue = {a, b} /\ MutuallyBlocked(a, b)) =>
         \A i \in Armed(G, a) : \A m \in PollResults(a) :
           LET g == timerCallback(G, a, i, m)
           IN DOMAIN g.queue = {a, b} /\ EffectsOf(g, "match-found") = {}

\* s1 and s2, one blocking the other, are the whole queue and were polled
C4_Witness ==
  /\ DOMAIN queue = {"s1", "s2"}
  /\ MutuallyBlocked("s1", "s2")
  /\ Polled("s1") \/ Polled("s2")

\* C5: when a connected socket s matched with p sends skip, the handler emits
\* match-ended (reason skipped, disconnected true) to p with autoRequeue true
\* and to s with autoRequeue equal to the flag s sent, both before the pairing
\* is deleted from the matches table, and when the handler returns neither s
\* nor p is matched.
C5_SkipNotifiesBeforeUnpair ==
  \A s \in connected : isMatched(G, s) =>
    \A auto \in BOOLEAN : \A hasUserId \in BOOLEAN : \A prefs \in PrefChoices(s) :
      LET p == getMatch(G, s)
          g == skip(G, s, auto, hasUserId, prefs)
          toP == PositionsOf(g, MatchEnded(p, s, TRUE, TRUE))
          toS == PositionsOf(g, MatchEnded(s, s, auto, TRUE))
      IN /\ toP # {} /\ toS # {}
         /\ DeletePositions(g) # {}
         /\ \A d \in DeletePositions(g) : \A k \in toP \cup toS : k < d
         /\ ~isMatched(g, s) /\ ~isMatched(g, p)

\* a skip with auto-requeue has run: its 200 ms timer is due, the sender is
\* unmatched and another socket that searched before is neither queued nor matched
C5_Witness ==
  \E s \in Sessions : \E p \in Sessions \ {s} :
    /\ \E op \in inflight[s] : op.kind = "requeue-timer"
    /\ ~isMatched(G, s) /\ ~isMatched(G, p)
    /\ Len(drivers[p]) > 0 /\ ~MapHas(queue, p)

\* C6: when a connected socket s1 matched with s2 disconnects, s2 is sent
\* match-ended with disconnected true, both halves of the pairing are deleted
\* and the queue is unchanged.
C6_DisconnectNotifiesPartner ==
  \A s1 \in connected : isMatched(G, s1) =>
    LET s2 == getMatch(G, s1)
        g == disconnect(G, s1)
    IN /\ \E e \in EffectsOf(g, "match-ended") : e.to = s2 /\ e.disc
       /\ ~isMatched(g, s1) /\ ~isMatched(g, s2)
       /\ g.queue = queue

\* C7: a socket whose disconnect has been handled is not in the queue, not in
\* the matches table, and no closure of handleMatchmaking polls for it.
C7_GoneStaysGone ==
  \A s \in Sessions \ connected :
    ~MapHas(queue, s) /\ ~isMatched(G, s) /\ Polling(G, s) = {}

\* C8: when the cancel-match of a socket has been handled, the socket is not
\* queued and no closure polls for it; and a find-match handler that was
\* overtaken by that cancel-match does not, when it resumes, queue the socket,
\* start a poll for it or send it match-found.
C8_CancelStopsSearch ==
  \A s \in connected :
    /\ LET g == cancelMatch(G, s)
       IN ~MapHas(g.queue, s) /\ Polling(g, s) = {}
    /\ \A in \in ResumeInputs(s, "find-match") : in[1].cancelled =>
         LET g == findMatchResumed(G, s, in[1], in[2], in[3])
         IN /\ ~MapHas(g.queue, s)
            /\ Polling(g, s) = {}
            /\ \A e \in EffectsOf(g, "match-found") : e.to # s

\* C9: a cancel-match from a matched socket leaves the pairing in place: the
\* socket and its match are still matched with each other afterwards.
C9_CancelKeepsPairing ==
  \A s \in connected : isMatched(G, s) =>
    LET p == getMatch(G, s)
        g == cancelMatch(G, s)
    IN getMatch(g, s) = p /\ getMatch(g, p) = s

\* C10: a closure that was stopped (by cancel-match, disconnect, the pairing
\* of its socket, or a skip) calls neither findMatch nor createMatch when its
\* timer fires later.
C10_StoppedDriverStaysStopped ==
  \A s \in Sessions : \A i \in Armed(G, s) : drivers[s][i].stopped =>
    \A m \in PollResults(s) :
      LET g == timerCallback(G, s, i, m)
      IN EffectsOf(g, "findMatch") = {} /\ EffectsOf(g, "createMatch") = {}

\* every preference payload and block list an enqueue may carry
AllPrefs == UNION {PrefChoices(x) : x \in Sessions}
AllBlockLists == {{}} \cup {BlockedBy(UserOf(x)) : x \in Sessions}

\* the buckets that hold s
BucketsOf(g, s) == {t \in DOMAIN g.tierBuckets : s \in g.tierBuckets[t]}

\* C17: addUser is an idempotent re-insertion: afterwards the queue holds the
\* socket once, its size is unchanged if the socket was queued before, and
\* the socket is in the bucket of the tier it was enqueued with and in no
\* other bucket.
C17_EnqueueIdempotent ==
  \A s \in Sessions : \A prefs \in AllPrefs : \A blocked \in AllBlockLists :
    LET g == addUser(G, s, UserOf(s), prefs, blocked)
    IN /\ DOMAIN g.queue = (DOMAIN queue) \cup {s}
       /\ MapHas(queue, s) => Cardinality(DOMAIN g.queue) = Cardinality(DOMAIN queue)
       /\ MapHas(queue, s) =>
            /\ g.queue[s].tier = prefs.tier
            /\ BucketsOf(g, s) = {prefs.tier}
       /\ Cardinality(BucketsOf(g, s)) <= 1
       /\ addUser(g, s, UserOf(s), prefs, blocked).queue = g.queue
       /\ addUser(g, s, UserOf(s), prefs, blocked).tierBuckets = g.tierBuckets

\* C18: clearing the match of a socket that has none leaves the matches table
\* as it was, by clearMatch and by removeUser, and clearing a second time
\* changes nothing more.
C18_UnpairIdempotent ==
  \A a \in Sessions :
    /\ ~isMatched(G, a) =>
         /\ clearMatch(G, a, getMatch(G, a)).matches = matches
         /\ removeUser(G, a, FALSE).matches = matches
    /\ LET p == getMatch(G, a)
           g == clearMatch(G, a, p)
       IN clearMatch(g, a, p).matches = g.matches
    /\ LET g == removeUser(G, a, FALSE)
       IN removeUser(g, a, FALSE).matches = g.matches

\* two sockets are matched while a third, which searched before, is neither
\* queued nor matched
C18_Witness ==
  /\ Cardinality(DOMAIN matches) = 2
  /\ \E a \in Sessions :
       ~isMatched(G, a) /\ ~MapHas(queue, a) /\ Len(drivers[a]) > 0

\* C19: findMatch leaves queue membership, the tier buckets and the matches
\* table alone; for a queued unmatched caller it adds exactly 1 to that
\* caller's searchAttempts and changes no other entry; for a matched or
\* unqueued caller it returns null and changes nothing.
C19_FindMatchFrame ==
  \A s \in Sessions :
    LET g == findMatch(G, s)
    IN /\ DOMAIN g.queue = DOMAIN queue
       /\ g.tierBuckets = tierBuckets
       /\ g.matches = matches
       /\ g = [G EXCEPT !.queue = g.queue]
       /\ \A c \in (DOMAIN queue) \ {s} : g.queue[c] = queue[c]
       /\ (MapHas(queue, s) /\ ~isMatched(G, s)) =>
            /\ g.queue[s].searchAttempts = queue[s].searchAttempts + 1
            /\ g.queue[s] = [queue[s] EXCEPT !.searchAttempts = g.queue[s].searchAttempts]
       /\ (isMatched(G, s) \/ ~MapHas(queue, s)) =>
            /\ g = G
            /\ \A w \in BOOLEAN : findMatchResults(G, s, w) = {None}

\* a socket was polled again while another queued socket was not
C19_Witness ==
  \E s \in DOMAIN queue : \E c \in (DOMAIN queue) \ {s} :
    queue[s].searchAttempts >= 2 /\ queue[c].searchAttempts = 1

\* C20: the tier buckets partition the queue: every queued socket is in
\* exactly one bucket, the one of the tier in its queue entry, and every
\* member of a bucket is queued.
C20_BucketsPartitionQueue ==
  /\ \A s \in DOMAIN queue : BucketsOf(G, s) = {queue[s].tier}
  /\ \A t \in DOMAIN tierBuckets : tierBuckets[t] \subseteq DOMAIN queue

\* ------------------------------------------------- properties of the relay
\* the effects of a handler emitted under one event name
Emitted(g, ev) == {k \in DOMAIN g.trace : g.trace[k].ev = ev}

\* a signalling handler emitted at most one event, named ev, to data.to and
\* tagged with the sender, and only with data.to the match of the sender
SignalOK(g, ev, s, to, pl) ==
  /\ Len(g.trace) <= 1
  /\ \A k \in DOMAIN g.trace :
       /\ g.trace[k].ev = ev /\ g.trace[k].to = to
       /\ g.trace[k].data = [payload |-> pl, from |-> s]
       /\ isMatched(G, s) /\ getMatch(G, s) = to
  /\ (~isMatched(G, s) \/ getMatch(G, s) # to) => g.trace = <<>>

\* C11: an offer, answer or ice-candidate of S with target T is forwarded, to
\* T and tagged from S, only if T is the match of S when it is handled; if S
\* has no match or T is not its match, nothing is emitted to any socket.
C11_SignalOnlyToPartner ==
  \A s \in connected : \A to \in Targets : \A pl \in Payloads :
    /\ SignalOK(offer(G, s, to, pl), "offer", s, to, pl)
    /\ SignalOK(answer(G, s, to, pl), "answer", s, to, pl)
    /\ SignalOK(iceCandidate(G, s, to, pl), "ice-candidate", s, to, pl)

\* a matched socket whose offer to its match is forwarded, beside a socket
\* without a match
C11_Witness ==
  /\ \E s \in connected :
       isMatched(G, s) /\ offer(G, s, getMatch(G, s), "sdp").trace # <<>>
  /\ \E u \in connected : ~isMatched(G, u)

\* C12: a send-message of a matched socket S that the filter rejects gives
\* exactly one message-blocked, to S, and no receive-message and no other
\* event to S, to its match or to anyone.
C12_VetoBlocksMessage ==
  \A s \in connected : \A text \in Texts : \A t1, t2 \in Clock :
    (isMatched(G, s) /\ isProfane(text)) =>
      LET g == sendMessage(G, s, text, t1, t2)
      IN /\ Cardinality(Emitted(g, "message-blocked")) = 1
         /\ Emitted(g, "receive-message") = {}
         /\ \A k \in DOMAIN g.trace :
              g.trace[k].ev = "message-blocked" /\ g.trace[k].to = s

\* a matched socket sent a text that the filter rejects and nothing of it was
\* relayed
C12_Witness ==
  \E s \in connected :
    /\ isMatched(G, s)
    /\ Len(submitted[s]) >= 1 /\ isProfane(submitted[s][1])
    /\ relayed[s] = <<>>

\* C13: a send-message of S, matched with P, that the filter accepts gives
\* one receive-message to S and one to P and none to anyone else, and the two
\* carry the same text, the same senderId S and the same timestamp.
C13_BothCopiesAlike ==
  \A s \in connected : \A text \in Texts : \A t1, t2 \in Clock :
    (isMatched(G, s) /\ ~isProfane(text) /\ t1 <= t2) =>
      LET g == sendMessage(G, s, text, t1, t2)
          p == getMatch(G, s)
          toS == {k \in Emitted(g, "receive-message") : g.trace[k].to = s}
          toP == {k \in Emitted(g, "receive-message") : g.trace[k].to = p}
      IN /\ Cardinality(toS) = 1 /\ Cardinality(toP) = 1
         /\ \A k \in DOMAIN g.trace :
              g.trace[k].ev = "receive-message" /\ g.trace[k].to \in {s, p}
         /\ \A j \in toS : \A k \in toP :
              /\ g.trace[j].data.message = text /\ g.trace[k].data.message = text
              /\ g.trace[j].data.senderId = s /\ g.trace[k].data.senderId = s
              /\ g.trace[j].data.timestamp = g.trace[k].data.timestamp

\* a is b with some of its elements left out
RECURSIVE IsSubseq(_, _)
IsSubseq(a, b) ==
  IF a = <<>> THEN TRUE
  ELSE IF b = <<>> THEN FALSE
  ELSE IF Head(a) = Head(b) THEN IsSubseq(Tail(a), Tail(b))
  ELSE IsSubseq(a, Tail(b))

\* C14: for every sender S, the texts emitted to its match as receive-message
\* are, in order and without repetition, texts S sent as send-message during
\* that match.
C14_RelayedIsSubsequence ==
  \A s \in Sessions : IsSubseq(relayed[s], submitted[s])

\* two different texts of one sender were relayed in one match
C14_Witness ==
  \E s \in Sessions :
    isMatched(G, s) /\ Len(relayed[s]) >= 2 /\ relayed[s][1] # relayed[s][2]

\* the event names under which the handlers of chat.ts and video.ts relay
RelayedEvents ==
  {"receive-message", "offer", "answer", "ice-candidate", "user-typing",
   "user-stopped-typing", "peer-video-toggle", "peer-audio-toggle"}

\* what the relay handlers emit for an event of s, over all payloads
RelayTraces(s) ==
  {sendMessage(G, s, text, 1, 1).trace : text \in Texts}
  \cup {offer(G, s, to, "sdp").trace : to \in Targets}
  \cup {answer(G, s, to, "sdp").trace : to \in Targets}
  \cup {iceCandidate(G, s, to, "sdp").trace : to \in Targets}
  \cup {videoToggle(G, s, enabled).trace : enabled \in BOOLEAN}
  \cup {audioToggle(G, s, enabled).trace : enabled \in BOOLEAN}
  \cup {typing(G, s).trace, stopTyping(G, s).trace}

\* C15: whenever a relayed event of a match is emitted, to either socket,
\* match-found naming the other socket was emitted to both sockets of that
\* match before.
C15_MatchFoundBeforeRelay ==
  \A s \in connected : \A tr \in RelayTraces(s) : \A k \in DOMAIN tr :
    tr[k].ev \in RelayedEvents =>
      LET p == getMatch(G, s)
      IN /\ p # None /\ tr[k].to \in {s, p}
         /\ notified[s] = p /\ notified[p] = s

\* a message was relayed in a match whose two sockets were sent match-found
C15_Witness ==
  \E s \in connected :
    /\ isMatched(G, s) /\ relayed[s] # <<>>
    /\ notified[s] = getMatch(G, s) /\ notified[getMatch(G, s)] = s

\* a handler emitted exactly ev with data to the match of s, or nothing if s
\* has no match
ToPartnerOnly(g, s, ev, data) ==
  IF isMatched(G, s)
  THEN /\ Len(g.trace) = 1
       /\ g.trace[1].ev = ev /\ g.trace[1].to = getMatch(G, s)
       /\ g.trace[1].data = data
  ELSE g.trace = <<>>

\* C16: typing, stop-typing, video-toggle and audio-toggle of S are emitted
\* as user-typing, user-stopped-typing, peer-video-toggle and
\* peer-audio-toggle to the match of S only, with the enabled flag as sent;
\* nothing is emitted when S has no match.
C16_TypingAndTogglesToPartner ==
  \A s \in connected :
    /\ ToPartnerOnly(typing(G, s), s, "user-typing", None)
    /\ ToPartnerOnly(stopTyping(G, s), s, "user-stopped-typing", None)
    /\ \A enabled \in BOOLEAN :
         /\ ToPartnerOnly(videoToggle(G, s, enabled), s, "peer-video-toggle",
                          [enabled |-> enabled])
         /\ ToPartnerOnly(audioToggle(G, s, enabled), s, "peer-audio-toggle",
                          [enabled |-> enabled])

\* a matched socket whose video-toggle reaches its match, beside a socket
\* without a match whose typing reaches no one
C16_Witness ==
  /\ \E s \in connected :
       isMatched(G, s) /\ videoToggle(G, s, FALSE).trace # <<>>
  /\ \E u \in connected : ~isMatched(G, u) /\ typing(G, u).trace = <<>>

\* ------------------------------------------- properties of the search driver
\* the queued sockets that s, enqueued with the block list of in, is not
\* barred from by a block list of either side
Unblocked(s, in) ==
  {c \in (DOMAIN queue) \ {s} :
     /\ UserOf(c) \notin Fetched(s, in[2])
     /\ UserOf(s) \notin queue[c].blockedUsers}

\* the handler emitted match-found to a naming b
ToldOf(g, a, b) ==
  \E k \in DOMAIN g.trace :
    g.trace[k].ev = "match-found" /\ g.trace[k].to = a /\ g.trace[k].from = b

\* C21: when S2 is enqueued by find-match while a socket S1 that neither
\* blocks nor is blocked by S2 is queued, the initial check of S2's new
\* closure makes a match in that same handler, before any poll timer is
\* armed: the two sockets are sent match-found naming each other, they are
\* each other's match, and neither is queued; the match is S1 when S1 is the
\* only such socket.
C21_InitialCheckPairs ==
  \A s2 \in Sessions : \A in \in ResumeInputs(s2, "find-match") :
    Unblocked(s2, in) # {} =>
      LET g == findMatchResumed(G, s2, in[1], in[2], in[3])
          m == getMatch(g, s2)
      IN /\ m \in Unblocked(s2, in)
         /\ getMatch(g, m) = s2
         /\ ToldOf(g, s2, m) /\ ToldOf(g, m, s2)
         /\ ~MapHas(g.queue, s2) /\ ~MapHas(g.queue, m)
         /\ \A k \in DOMAIN g.trace : g.trace[k].ev # "searching"
         /\ ~g.drivers[s2][Len(g.drivers[s2])].pending

\* the two sockets were matched by the first check of the second one: each
\* searched once, both were told, the queue is empty and no timer is armed
C21_Witness ==
  \E a, b \in Sessions :
    /\ getMatch(G, a) = b /\ notified[a] = b /\ notified[b] = a
    /\ queue = <<>>
    /\ Len(drivers[a]) = 1 /\ Len(drivers[b]) = 1
    /\ ~drivers[a][1].pending /\ ~drivers[b][1].pending

\* ------------------------------------------------------ properties of skip
\* a suspended handler of s of one kind
InFlight(g, s, kind) == {op \in g.inflight[s] : op.kind = kind}

\* C22: a skip with autoRequeue true from a matched, connected socket S arms
\* the 200 ms timer for S; when the timer fires for a connected S the block
\* list is fetched, and when the fetch returns S is queued again (or matched
\* by its first check) and a new closure of handleMatchmaking exists for S.
C22_AutoRequeueRestartsSearch ==
  \A s \in connected :
    /\ isMatched(G, s) =>
         \A in \in SkipInputs(s) :
           in[1] => InFlight(skip(G, s, in[1], in[2], in[3]), s, "requeue-timer") # {}
    /\ \A op \in RequeueTimerInputs(s) :
         InFlight(requeueTimer(G, s, op), s, "requeue-fetch") # {}
    /\ \A in \in ResumeInputs(s, "requeue-fetch") :
         LET g == requeueResumed(G, s, in[1], in[2], in[3])
         IN /\ MapHas(g.queue, s) \/ isMatched(g, s)
            /\ Len(g.drivers[s]) = Len(drivers[s]) + 1

\* C23: a skip of S, matched with P, also arms the requeue timer for P, by
\* which P is queued again and a new closure is started for P.
C23_SkipRequeuesPartner ==
  \A s \in connected :
    isMatched(G, s) =>
      \A in \in SkipInputs(s) :
        InFlight(skip(G, s, in[1], in[2], in[3]), getMatch(G, s), "requeue-timer") # {}

\* C24: for a connected socket without a match, a skip without autoRequeue
\* and a cancel-match leave the same queue, matches table and closures, the
\* same two shared maps, and emit the same events.
C24_UnpairedSkipIsCancel ==
  \A s \in connected :
    ~isMatched(G, s) =>
      \A in \in SkipInputs(s) :
        ~in[1] =>
          LET a == skip(G, s, in[1], in[2], in[3])
              b == cancelMatch(G, s)
          IN /\ a.queue = b.queue /\ a.tierBuckets = b.tierBuckets
             /\ a.matches = b.matches
             /\ a.drivers = b.drivers
             /\ a.intervals = b.intervals /\ a.cancelled = b.cancelled
             /\ a.trace = b.trace

\* C26: a skip from a matched socket S is acknowledged to S with skip-success
\* carrying the autoRequeue flag of that skip: in the handler, or by the
\* requeue timer the handler arms, whose last step emits it.
C26_SkipAcknowledged ==
  \A s \in connected :
    /\ isMatched(G, s) =>
         \A in \in SkipInputs(s) :
           LET g == skip(G, s, in[1], in[2], in[3])
           IN \/ \E k \in DOMAIN g.trace :
                   /\ g.trace[k].ev = "skip-success" /\ g.trace[k].to = s
                   /\ g.trace[k].auto = in[1]
              \/ in[1] /\ InFlight(g, s, "requeue-timer") # {}
    /\ \A in \in ResumeInputs(s, "requeue-fetch") :
         \E e \in EffectsOf(requeueResumed(G, s, in[1], in[2], in[3]), "skip-success") :
           e.to = s /\ e.auto

\* the handler queued s with an empty block list (or its first check matched
\* it), started one more closure for s, which made its first check, and
\* emitted no error
EnqueuedUnfiltered(g, s) ==
  /\ \/ MapHas(g.queue, s) /\ g.queue[s].blockedUsers = {}
     \/ isMatched(g, s)
  /\ Len(g.drivers[s]) = Len(drivers[s]) + 1
  /\ \E e \in EffectsOf(g, "findMatch") : e.to = s
  /\ EffectsOf(g, "error") = {}

\* C25: when Block.find fails in find-match, or in the auto-requeue of a
\* skip, the socket is queued all the same, with an empty block list, and a
\* closure of handleMatchmaking is started for it; no error event is emitted.
C25_FetchFailureStillEnqueues ==
  \A s \in Sessions :
    /\ \A in \in ResumeInputs(s, "find-match") :
         ~in[2] => EnqueuedUnfiltered(findMatchResumed(G, s, in[1], in[2], in[3]), s)
    /\ \A in \in ResumeInputs(s, "requeue-fetch") :
         ~in[2] => EnqueuedUnfiltered(requeueResumed(G, s, in[1], in[2], in[3]), s)

\* s1, whose stored block list is not empty, is queued with an empty one and
\* its closure has polled
C25_Witness ==
  /\ BlockedBy(UserOf("s1")) # {}
  /\ MapHas(queue, "s1") /\ queue["s1"].blockedUsers = {}
  /\ Len(drivers["s1"]) > 0 /\ queue["s1"].searchAttempts > 0

\* ------------------------------------------ properties of the polling delay
\* C27: the delay chosen after an unsuccessful poll is, for queue size q and
\* attempt count a (the closure's checkCount): min(10 s, 2^floor(a/5) s) if
\* q = 1; else 500 ms if q <= 2; else 1 s if a < 5; else 2 s if a < 15; else
\* 3 s.
C27_PollingInterval ==
  interval # 0 =>
    LET q == queueSize
        a == checkCount
        backoff == 2^(a \div 5) * 1000
    IN CASE q = 1 -> interval = (IF backoff > 10000 THEN 10000 ELSE backoff)
         [] q # 1 /\ q <= 2 -> interval = 500
         [] q > 2 /\ a < 5 -> interval = 1000
         [] q > 2 /\ a >= 5 /\ a < 15 -> interval = 2000
         [] OTHER -> interval = 3000

\* the back-off of a socket alone in the queue reached its ceiling
C27_Witness == queueSize = 1 /\ checkCount >= 20 /\ interval = 10000

\* ------------------------------------------------- properties of findMatch
\* neither block list bars the two queued sockets from each other
NotBlocked(s, c) ==
  /\ queue[c].userId \notin queue[s].blockedUsers
  /\ queue[s].userId \notin queue[c].blockedUsers

\* c fails a region or gender filter that s has set
Mismatch(s, c) ==
  \/ queue[s].region # "any" /\ queue[c].region # queue[s].region
  \/ queue[s].gender # "any" /\ queue[c].gender # queue[s].gender

C29_NullIffAllBlocked ==
  \A s \in DOMAIN queue : \A w \in BOOLEAN :
    ~isMatched(G, s) =>
      /\ findMatchResults(G, s, w) = {None}
           <=> ~\E c \in (DOMAIN queue) \ {s} : NotBlocked(s, c)
      /\ \A m \in findMatchResults(G, s, w) \ {None} :
           m \in (DOMAIN queue) \ {s} /\ NotBlocked(s, m)

\* a caller with a filter that no queued socket passes was polled and is
\* still given a socket
C29_Witness ==
  \E s \in DOMAIN queue :
    /\ queue[s].searchAttempts >= 1
    /\ \A c \in (DOMAIN queue) \ {s} : Mismatch(s, c)
    /\ findMatchResults(G, s, FALSE) # {None}

\* C30: findMatch returns a socket that fails a region or gender filter of
\* the caller only when no queued socket of any tier bucket passes
\* areCompatible for the caller; and areCompatible tests the caller's filters
\* only, so a caller without filters is compatible with every other unmatched
\* queued socket that no block list bars.
C30_FiltersRelaxedLast ==
  \A s \in DOMAIN queue :
    /\ \A w \in BOOLEAN : \A m \in findMatchResults(G, s, w) \ {None} :
         Mismatch(s, m) =>
           ~\E c \in UNION {tierBuckets[t] : t \in DOMAIN tierBuckets} :
               MapHas(queue, c) /\ areCompatible(G, s, c)
    /\ \A c \in (DOMAIN queue) \ {s} :
         areCompatible(G, s, c) <=>
           ~isMatched(G, c) /\ NotBlocked(s, c) /\ ~Mismatch(s, c)

\* a polled caller with a filter may be given a socket that fails it, while
\* another socket, itself with a filter the caller fails, is compatible for a
\* caller without filters
C30_Witness ==
  /\ \E s \in DOMAIN queue :
       /\ queue[s].searchAttempts >= 1
       /\ \E m \in findMatchResults(G, s, FALSE) \ {None} : Mismatch(s, m)
  /\ \E s \in DOMAIN queue : \E c \in DOMAIN queue :
       /\ queue[s].region = "any" /\ queue[s].gender = "any"
       /\ areCompatible(G, s, c) /\ Mismatch(c, s)

\* ---------------------------------------------- properties of the selection
\* the candidates that fewer than five candidates outscore
HighestFive(cs) ==
  {cs[i].user : i \in {j \in DOMAIN cs :
      Cardinality({k \in DOMAIN cs : cs[k].score > cs[j].score}) < 5}}

\* C31: the candidate findMatch returns is one of the at most five candidates
\* of highest score, and every score is strictly positive, so the weighted
\* draw has a positive total and positive weights.  The scores are also
\* taken over both tier cases, wait times from 0 to more than 30 s, attempts
\* up to 15 and every whole random term.
C31_SelectedAmongTopFive ==
  /\ \A i \in DOMAIN candidates : candidates[i].score > 0
  /\ \A t \in BOOLEAN : \A w \in {0, 599, 600, 30000, 60000} :
       \A a \in 0..15 : \A rnd \in 0..9 : calculateMatchScore(t, w, a, rnd) > 0
  /\ selected # None => selected \in HighestFive(candidates)
  /\ \A r \in 0..(RandomSteps - 1) :
       candidates # <<>> => select(candidates, r) \in HighestFive(candidates)

\* a selection was made among six candidates of which one scores lowest
C31_Witness ==
  /\ selected # None
  /\ Len(candidates) = 6
  /\ Cardinality(HighestFive(candidates)) = 5

\* ------------------------------------------- properties of match-found
\* every match-found of the handler sent to the socket that was picked, that
\* is to the second argument of a createMatch call of the handler, carries
\* the time since the polling socket was enqueued
WaitTimeOfPoller(g) ==
  \A e \in EffectsOf(g, "match-found") :
    (\E c \in EffectsOf(g, "createMatch") : c.to = e.from /\ c.from = e.to)
      => e.data.waitTime = WaitTime("elapsed", e.from)

\* C32: the waitTime of the match-found sent to the picked socket is the time
\* since the polling socket was enqueued, read from its queue entry, and not
\* the default that getUserWaitTime gives for a socket that is not queued.
C32_PickedGetsPollersWaitTime ==
  \A s \in Sessions :
    /\ \A in \in ResumeInputs(s, "find-match") :
         WaitTimeOfPoller(findMatchResumed(G, s, in[1], in[2], in[3]))
    /\ \A in \in ResumeInputs(s, "requeue-fetch") :
         WaitTimeOfPoller(requeueResumed(G, s, in[1], in[2], in[3]))
    /\ \A i \in Armed(G, s) : \A m \in PollResults(s) :
         WaitTimeOfPoller(timerCallback(G, s, i, m))

\* no match-found and no receive-message of the handler names to its
\* receiver the user id of another socket
NoUserIdSent(g) ==
  /\ \A e \in EffectsOf(g, "match-found") :
       e.data.matchUserId \notin {UserOf(x) : x \in Sessions \ {e.to}}
  /\ \A e \in EffectsOf(g, "receive-message") :
       /\ e.data.senderId \notin {UserOf(x) : x \in Sessions \ {e.to}}
       /\ e.data.senderId = e.from

\* C33: no event emitted to a socket carries the user id of another socket:
\* match-found names the match to both sides by socket id only, and
\* receive-message carries the socket id of the sender only.
C33_NoUserIdDisclosed ==
  \A s \in Sessions :
    /\ \A in \in ResumeInputs(s, "find-match") :
         NoUserIdSent(findMatchResumed(G, s, in[1], in[2], in[3]))
    /\ \A in \in ResumeInputs(s, "requeue-fetch") :
         NoUserIdSent(requeueResumed(G, s, in[1], in[2], in[3]))
    /\ \A i \in Armed(G, s) : \A m \in PollResults(s) :
         NoUserIdSent(timerCallback(G, s, i, m))
    /\ \A text \in Texts : \A t1, t2 \in Clock :
         NoUserIdSent(sendMessage(G, s, text, t1, t2))

\* ----------------------------------------------- properties of the closures
\* C34: in every reachable state at most one closure of handleMatchmaking per
\* socket has its poll timer armed: a find-match or an auto-requeue for a
\* socket whose closure has a timer armed leaves only the new closure's timer.
C34_OneDriverPerSocket ==
  \A s \in Sessions : Cardinality(Armed(G, s)) <= 1

\* ------------------------------------------ properties of the requeue timer
\* the handler sent match-ended to p before it deleted a pairing
EndedBeforeDelete(g, p) ==
  \E k \in DOMAIN g.trace :
    /\ g.trace[k].ev = "match-ended" /\ g.trace[k].to = p
    /\ \A d \in DeletePositions(g) : k < d

\* C35: when the 200 ms timer of a skip of S fires while S is matched again
\* (a match S entered after the skip), the timer's handler either keeps that
\* match or sends match-ended to the new match before it deletes it.
C35_RequeueKeepsNewMatch ==
  \A s \in Sessions : \A op \in RequeueTimerInputs(s) :
    isMatched(G, s) =>
      LET g == requeueTimer(G, s, op)
          p == getMatch(G, s)
      IN getMatch(g, s) = p \/ EndedBeforeDelete(g, p)

\* ------------------------------------- properties of find-match when matched
\* C36: a find-match from a matched socket never leaves its match unmatched,
\* unqueued and without a match-ended: if the handler clears the pairing it
\* sends match-ended to the other socket.
C36_FindMatchNotifiesPartner ==
  \A s \in Sessions : \A prefs \in FindMatchInputs(s) :
    isMatched(G, s) =>
      LET g == findMatchReceived(FollowedByFindMatch(G, s), s, prefs)
          p == getMatch(G, s)
      IN \/ isMatched(g, p)
         \/ MapHas(g.queue, p)
         \/ \E e \in EffectsOf(g, "match-ended") : e.to = p

\* -------------------------------------------- properties of cancel-match
\* s is queued and a closure of s has its poll timer armed and would poll
Searching(s) == MapHas(queue, s) /\ Polling(G, s) # {}

\* C37: a cancel-match from a searching socket makes the program emit
\* match-cancelled to that socket exactly once, whatever find-match events and
\* matches came before.
C37_OneMatchCancelled ==
  \A s \in connected :
    Searching(s) =>
      LET g == cancelMatch(G, s)
      IN Cardinality({k \in Emitted(g, "match-cancelled") : g.trace[k].to = s}) = 1

\* ------------------------------------------------- properties of progress
\* every connected socket in the queue has a closure that is not cancelled
\* and whose poll timer is armed
DriverScheduled == \A s \in connected : MapHas(queue, s) => Polling(G, s) # {}

\* a and b are connected, both queued, and neither block list bars the other
QueuedTogether(a, b) ==
  /\ a # b /\ a \in connected /\ b \in connected
  /\ MapHas(queue, a) /\ MapHas(queue, b)
  /\ NotBlocked(a, b)

====
